---- MODULE Spec2Model ----
(***************************************************************************)
(* Model of wordfreq_threaded.py: the segment planner (compute_segments),  *)
(* the per-segment counter (count_words_bytes), the aggregator             *)
(* (consolidate) and the thread orchestration of main.                     *)
(*                                                                         *)
(* A file is a sequence of bytes (integers 0..255).  Byte offsets are the  *)
(* 0-based offsets of the source; sequence indices are offset + 1.         *)
(* A text is a sequence of code points, a word is a text, and a Counter is *)
(* a function from a finite set of words to their counts.                  *)
(***************************************************************************)
EXTENDS Integers, Sequences, FiniteSets

VARIABLES
  file,         \* the bytes of the input file (args.file)
  n,            \* args.segments
  pc,           \* main's position
  err,          \* the exception that ended main, or "none"
  segments,     \* compute_segments' local list before the merge pass
  segs,         \* main's segs: the plan compute_segments returned
  results,      \* main's shared results list
  threads,      \* main's threads list: the SegmentWorker objects started
  status,       \* per started thread: "running", "finished" or "died"
  joined,       \* how many threads main's join loop has joined
  final_counts, \* main's final_counts
  printed       \* TRUE once the final consolidated table has been printed

vars == <<file, n, pc, err, segments, segs, results, threads, status, joined,
          final_counts, printed>>

---------------------------------------------------------------------------
(* Bounds of the model. *)

MaxSize == 5

MaxSegments == 3

MaxMaps == 3

MaxCount == 2

\* The byte values files are built from: space, apostrophe, '0', 'A', 'a',
\* and the two bytes of U+00E9 in UTF-8 (0xC3 0xA9), which apart are invalid.
Bytes == {32, 39, 48, 65, 97, 195, 169}

RECURSIVE SeqsUpTo(_, _)
SeqsUpTo(S, k) ==
  IF k = 0 THEN {<<>>}
  ELSE LET shorter == SeqsUpTo(S, k - 1)
       IN  shorter \cup {Append(q, x) : q \in {r \in shorter : Len(r) = k - 1}, x \in S}

Files == SeqsUpTo(Bytes, MaxSize)

Max(a, b) == IF a >= b THEN a ELSE b

---------------------------------------------------------------------------
(* is_word_char *)

is_word_char(b) ==
  \/ (65 <= b /\ b <= 90)
  \/ (97 <= b /\ b <= 122)
  \/ (48 <= b /\ b <= 57)
  \/ b = 39

---------------------------------------------------------------------------
(* compute_segments *)

\* f.seek(pos); f.read(1) for pos >= 0: one byte, or the empty bytes at EOF.
ReadAt(f, pos) == IF pos < Len(f) THEN <<f[pos + 1]>> ELSE <<>>

\* Lines 37-43: advance start while the byte before it is a word byte.
RECURSIVE AdjustStart(_, _)
AdjustStart(f, start) ==
  LET prev == ReadAt(f, start - 1)
  IN  IF prev # <<>> /\ is_word_char(prev[1])
      THEN AdjustStart(f, start + 1)
      ELSE start

\* Lines 48-56: advance end while the byte before it is a word byte, capped.
RECURSIVE AdjustEndLoop(_, _)
AdjustEndLoop(f, end) ==
  LET cur == ReadAt(f, end - 1)
  IN  IF cur # <<>> /\ is_word_char(cur[1])
      THEN IF end + 1 >= Len(f) THEN Len(f) ELSE AdjustEndLoop(f, end + 1)
      ELSE end

\* A faulty variant of AdjustEnd: the end is left where the naive split put it.
AdjustEndNaive(f, end) == end

AdjustEnd(f, end) == AdjustEndLoop(f, end)

\* Lines 32-33: the naive bounds of segment i (0-based).
NaiveStart(f, k, i) == i * (Len(f) \div k)

NaiveEnd(f, k, i) == IF i = k - 1 THEN Len(f) ELSE (i + 1) * (Len(f) \div k)

\* Line 48: f.seek(end - 1) raises OSError for a negative offset.
SeekRaises(f, k, i) == NaiveEnd(f, k, i) < Len(f) /\ NaiveEnd(f, k, i) - 1 < 0

\* Lines 30-58: the adjusted (start, end) of segment i.
SegmentBounds(f, k, i) ==
  LET start0 == NaiveStart(f, k, i)
      end0   == NaiveEnd(f, k, i)
      start  == IF start0 > 0 THEN AdjustStart(f, start0) ELSE start0
      end    == IF end0 < Len(f) THEN AdjustEnd(f, end0) ELSE end0
  IN  <<start, end>>

RawSegments(f, k) == [j \in 1..k |-> SegmentBounds(f, k, j - 1)]

\* A faulty variant of ClampStart: lines 73-74 left out.
ClampStartNoCap(s, e, last_end) == Max(s, last_end)

\* Lines 72-74.
ClampStart(s, e, last_end) ==
  LET s1 == Max(s, last_end) IN IF s1 > e THEN e ELSE s1

\* Lines 60-77: the merge pass, from segment j on.
RECURSIVE MergeFrom(_, _, _, _)
MergeFrom(sg, j, merged, last_end) ==
  IF j > Len(sg) THEN merged
  ELSE LET s == sg[j][1]
           e == sg[j][2]
           m == Len(merged)
       IN  IF merged = <<>>
           THEN MergeFrom(sg, j + 1, <<<<s, e>>>>, e)
           ELSE IF e - s = 0
                THEN MergeFrom(sg, j + 1,
                       [merged EXCEPT ![m] = <<merged[m][1], Max(merged[m][2], e)>>],
                       last_end)
                ELSE MergeFrom(sg, j + 1,
                       Append(merged, <<ClampStart(s, e, last_end), e>>), e)

MergePass(sg) == MergeFrom(sg, 1, <<>>, -1)

\* compute_segments(path, n): the exception raised ("none" when it returns),
\* the list before the merge pass, and the plan returned.
compute_segments(f, k) ==
  IF k <= 0
  THEN [exc |-> "ValueError", raw |-> <<>>, plan |-> <<>>]
  ELSE IF Len(f) = 0
  THEN [exc |-> "none", raw |-> <<>>, plan |-> <<<<0, 0>>>>]
  ELSE IF \E i \in 0..(k - 1) : SeekRaises(f, k, i)
  THEN [exc |-> "OSError", raw |-> <<>>, plan |-> <<>>]
  ELSE [exc |-> "none", raw |-> RawSegments(f, k), plan |-> MergePass(RawSegments(f, k))]

---------------------------------------------------------------------------
(* count_words_bytes *)

\* buf.decode("utf-8", errors="ignore") from index j on: an ASCII byte is its
\* own code point; a two-byte lead (0xC2..0xDF) followed by a continuation
\* byte (0x80..0xBF) is one code point; any other byte is dropped.  The bytes
\* of the model are below 0xE0, so three- and four-byte forms do not arise.
RECURSIVE DecodeFrom(_, _)
DecodeFrom(buf, j) ==
  IF j > Len(buf) THEN <<>>
  ELSE LET b == buf[j]
       IN  IF b < 128
           THEN <<b>> \o DecodeFrom(buf, j + 1)
           ELSE IF 194 <= b /\ b <= 223 /\ j < Len(buf)
                   /\ 128 <= buf[j + 1] /\ buf[j + 1] <= 191
                THEN <<(b - 192) * 64 + (buf[j + 1] - 128)>> \o DecodeFrom(buf, j + 2)
                ELSE DecodeFrom(buf, j + 1)

decode_utf8_ignore(buf) == DecodeFrom(buf, 1)

\* str.lower() on the code points the model's bytes decode to: ASCII capitals
\* fold to small letters, U+00E9 and the other ASCII characters are unchanged.
lower(text) ==
  [j \in 1..Len(text) |-> IF 65 <= text[j] /\ text[j] <= 90 THEN text[j] + 32 ELSE text[j]]

\* A character WORD_RE's class [A-Za-z0-9'] matches.
WordReChar(c) ==
  \/ (65 <= c /\ c <= 90)
  \/ (97 <= c /\ c <= 122)
  \/ (48 <= c /\ c <= 57)
  \/ c = 39

\* WORD_RE.findall(text) from index j on, cur being the run matched so far.
RECURSIVE FindAllFrom(_, _, _)
FindAllFrom(text, j, cur) ==
  IF j > Len(text)
  THEN IF cur = <<>> THEN <<>> ELSE <<cur>>
  ELSE IF WordReChar(text[j])
       THEN FindAllFrom(text, j + 1, Append(cur, text[j]))
       ELSE (IF cur = <<>> THEN <<>> ELSE <<cur>>) \o FindAllFrom(text, j + 1, <<>>)

findall(text) == FindAllFrom(text, 1, <<>>)

\* The words of a byte buffer, in order (line 84).
words_of(buf) == findall(lower(decode_utf8_ignore(buf)))

\* Counter(words)
Counter(words) ==
  [w \in {words[j] : j \in 1..Len(words)} |->
     Cardinality({j \in 1..Len(words) : words[j] = w})]

count_words_bytes(buf) == Counter(words_of(buf))

EmptyCounter == Counter(<<>>)

\* f.seek(start); f.read(end - start)
ReadRange(f, start, end) == SubSeq(f, start + 1, end)

---------------------------------------------------------------------------
(* consolidate *)

Get(c, w) == IF w \in DOMAIN c THEN c[w] ELSE 0

\* A faulty variant of CounterUpdate: dict.update, the later count replaces the sum.
CounterUpdateReplace(total, c) ==
  [w \in (DOMAIN total) \cup (DOMAIN c) |-> IF w \in DOMAIN c THEN c[w] ELSE total[w]]

\* Counter.update(c): counts are added.
CounterUpdate(total, c) ==
  [w \in (DOMAIN total) \cup (DOMAIN c) |-> Get(total, w) + Get(c, w)]

\* Lines 116-118, from result j on.
RECURSIVE ConsolidateFrom(_, _, _)
ConsolidateFrom(rs, j, total) ==
  IF j > Len(rs) THEN total
  ELSE IF DOMAIN rs[j] # {}
       THEN ConsolidateFrom(rs, j + 1, CounterUpdate(total, rs[j]))
       ELSE ConsolidateFrom(rs, j + 1, total)

consolidate(rs) == ConsolidateFrom(rs, 1, EmptyCounter)

---------------------------------------------------------------------------
(* SegmentWorker and the threads of main *)

\* An attribute value: an int, a method of the class, or another object.
IntValue(v) == [kind |-> "int", val |-> v]

MethodValue == [kind |-> "method", val |-> 0]

ObjectValue == [kind |-> "object", val |-> 0]

\* The methods threading.Thread gives every SegmentWorker.
ThreadMethods == {"start", "run", "join"}

\* SegmentWorker.__init__ (lines 88-96): the instance's own attributes.
SegmentWorkerInit(idx, start, end) ==
  [path    |-> ObjectValue,
   idx     |-> IntValue(idx),
   start   |-> IntValue(start),
   end     |-> IntValue(end),
   out_dir |-> ObjectValue,
   results |-> ObjectValue,
   lock    |-> ObjectValue]

\* t.<name>: an instance attribute shadows a method of the class.
GetAttr(t, name) ==
  IF name \in DOMAIN t THEN t[name]
  ELSE IF name \in ThreadMethods THEN MethodValue
  ELSE ObjectValue

Callable(v) == v.kind = "method"

---------------------------------------------------------------------------
(* main *)

Init ==
  /\ file \in Files
  /\ n \in 0..MaxSegments
  /\ pc = "compute"
  /\ err = "none"
  /\ segments = <<>>
  /\ segs = <<>>
  /\ results = <<>>
  /\ threads = <<>>
  /\ status = <<>>
  /\ joined = 0
  /\ final_counts = EmptyCounter
  /\ printed = FALSE

\* Line 134: segs = compute_segments(args.file, args.segments); an exception
\* ends main.
ComputeSegments ==
  /\ pc = "compute"
  /\ LET r == compute_segments(file, n)
     IN  /\ err' = r.exc
         /\ segments' = r.raw
         /\ segs' = r.plan
         /\ pc' = IF r.exc = "none" THEN "setup" ELSE "raised"
  /\ UNCHANGED <<file, n, results, threads, status, joined, final_counts, printed>>

\* Lines 141-143: the results list, one empty Counter per range.
SetupResults ==
  /\ pc = "setup"
  /\ results' = [j \in 1..Len(segs) |-> EmptyCounter]
  /\ threads' = <<>>
  /\ pc' = "spawn"
  /\ UNCHANGED <<file, n, err, segments, segs, status, joined, final_counts, printed>>

\* Lines 144-147, one iteration: construct the worker of the next range and
\* call t.start(); calling a value that is not callable raises TypeError.
SpawnWorker ==
  /\ pc = "spawn"
  /\ Len(threads) < Len(segs)
  /\ LET i == Len(threads)
         t == SegmentWorkerInit(i, segs[i + 1][1], segs[i + 1][2])
     IN  IF Callable(GetAttr(t, "start"))
         THEN /\ threads' = Append(threads, t)
              /\ status' = Append(status, "running")
              /\ UNCHANGED <<pc, err>>
         ELSE /\ pc' = "raised"
              /\ err' = "TypeError"
              /\ UNCHANGED <<threads, status>>
  /\ UNCHANGED <<file, n, segments, segs, results, joined, final_counts, printed>>

\* Line 144: the loop over segs is exhausted.
SpawnDone ==
  /\ pc = "spawn"
  /\ Len(threads) = Len(segs)
  /\ pc' = "join"
  /\ UNCHANGED <<file, n, err, segments, segs, results, threads, status, joined,
                 final_counts, printed>>

\* SegmentWorker.run (lines 98-112) of started thread j: read the range,
\* count, write the intermediate file, store the counts at the own index.
WorkerRun(j) ==
  /\ j \in 1..Len(threads)
  /\ status[j] = "running"
  /\ LET t == threads[j]
         counts == count_words_bytes(ReadRange(file, t.start.val, t.end.val))
     IN  results' = [results EXCEPT ![t.idx.val + 1] = counts]
  /\ status' = [status EXCEPT ![j] = "finished"]
  /\ UNCHANGED <<file, n, pc, err, segments, segs, threads, joined, final_counts, printed>>

\* SegmentWorker.run ended by an exception of open, read or write (lines 99-108):
\* the thread dies before line 112.
WorkerDies(j) ==
  /\ j \in 1..Len(threads)
  /\ status[j] = "running"
  /\ status' = [status EXCEPT ![j] = "died"]
  /\ UNCHANGED <<file, n, pc, err, segments, segs, results, threads, joined,
                 final_counts, printed>>

\* Lines 150-151, one iteration: t.join() returns once the thread has ended.
JoinThread ==
  /\ pc = "join"
  /\ joined < Len(threads)
  /\ status[joined + 1] # "running"
  /\ joined' = joined + 1
  /\ UNCHANGED <<file, n, pc, err, segments, segs, results, threads, status,
                 final_counts, printed>>

\* Line 154.
Consolidate ==
  /\ pc = "join"
  /\ joined = Len(threads)
  /\ final_counts' = consolidate(results)
  /\ pc' = "report"
  /\ UNCHANGED <<file, n, err, segments, segs, results, threads, status, joined, printed>>

\* Lines 156-164: the final table is printed.
Report ==
  /\ pc = "report"
  /\ printed' = TRUE
  /\ pc' = "done"
  /\ UNCHANGED <<file, n, err, segments, segs, results, threads, status, joined,
                 final_counts>>

\* The steps of main that some run takes.
Next ==
  \/ ComputeSegments
  \/ SetupResults
  \/ SpawnWorker

Spec == Init /\ [][Next]_vars

\* Every step the code has.  The steps after the spawn loop are enabled in no
\* reachable state: the first t.start() of line 146 raises.
NextAll ==
  \/ Next
  \/ SpawnDone
  \/ \E j \in 1..MaxSegments : WorkerRun(j) \/ WorkerDies(j)
  \/ JoinThread
  \/ Consolidate
  \/ Report

SpecAll == Init /\ [][NextAll]_vars

---------------------------------------------------------------------------
(* consolidate as a function of any list of Counters *)

AggWords == {<<97>>, <<98>>}

Counters == UNION {[D -> 1..MaxCount] : D \in SUBSET AggWords}

InitAgg ==
  /\ file = <<>>
  /\ n = 1
  /\ pc = "agg_call"
  /\ err = "none"
  /\ segments = <<>>
  /\ segs = <<>>
  /\ results \in SeqsUpTo(Counters, MaxMaps)
  /\ threads = <<>>
  /\ status = <<>>
  /\ joined = 0
  /\ final_counts = EmptyCounter
  /\ printed = FALSE

\* consolidate(results) applied to the list drawn.
ApplyConsolidate ==
  /\ pc = "agg_call"
  /\ final_counts' = consolidate(results)
  /\ pc' = "agg_return"
  /\ UNCHANGED <<file, n, err, segments, segs, results, threads, status, joined, printed>>

NextAgg == ApplyConsolidate

SpecAgg == InitAgg /\ [][NextAgg]_vars

---------------------------------------------------------------------------
(* Vocabulary of the properties *)

\* main has called compute_segments (it returned or raised).
PlannerCalled == pc \in {"setup", "spawn", "join", "report", "done", "raised"}

\* compute_segments returned a plan (it returns no empty list).
PlanReturned == PlannerCalled /\ segs # <<>>

Size == Len(file)

RangeStart(j) == segs[j][1]

RangeEnd(j) == segs[j][2]

\* A word byte as the specification defines it: ASCII letter, digit, apostrophe.
WordByte(b) == b \in (65..90) \cup (97..122) \cup (48..57) \cup {39}

\* The counts of each planned range, and the words of the ranges in plan order.
PerSegmentCounts ==
  [j \in 1..Len(segs) |-> count_words_bytes(ReadRange(file, RangeStart(j), RangeEnd(j)))]

RECURSIVE WordsOfRangesFrom(_)
WordsOfRangesFrom(j) ==
  IF j > Len(segs) THEN <<>>
  ELSE words_of(ReadRange(file, RangeStart(j), RangeEnd(j))) \o WordsOfRangesFrom(j + 1)

EndToEndEqual ==
  /\ consolidate(PerSegmentCounts) = count_words_bytes(file)
  /\ WordsOfRangesFrom(1) = words_of(file)

\* The ranges start at 0, end at the file size and leave no gap.
Covers ==
  /\ RangeStart(1) = 0
  /\ RangeEnd(Len(segs)) = Size
  /\ \A j \in 2..Len(segs) : RangeStart(j) = RangeEnd(j - 1)

---------------------------------------------------------------------------
(* Properties *)

\* C1: for every file, every content and every segment count n >= 1,
\* compute_segments returns a plan whose first range starts at 0, whose last
\* range ends at the file size and in which each range starts where the
\* previous one ends.
C1_Coverage == (PlannerCalled /\ n >= 1) => (PlanReturned /\ Covers)

\* C2: for every file content and every segment count n >= 1, planning,
\* counting each range and consolidating gives the counts of the whole file, and
\* the words of the ranges in plan order are the words of the whole file.
C2_EndToEnd == (PlannerCalled /\ n >= 1) => (PlanReturned /\ EndToEndEqual)

\* C3: for a non-empty file smaller than the segment count the planner raises
\* no error, the run goes on and the aggregate counts are those of the file.
C3_CountExceedsContent ==
  (PlannerCalled /\ 0 < Size /\ Size < n) =>
    (err # "OSError" /\ PlanReturned /\ EndToEndEqual)

\* C4: once main has left the spawn loop of a returned plan, one worker per
\* planned range has been started and main has not been ended by an exception;
\* when aggregation begins results[i] holds the counts of range i.
C4_ForkJoinHandOff ==
  (PlanReturned /\ pc \notin {"setup", "spawn"}) =>
    /\ pc # "raised"
    /\ Len(threads) = Len(segs)
    /\ (pc \in {"report", "done"} => results = PerSegmentCounts)

\* C7: in every plan returned, every range satisfies 0 <= start <= end <= size,
\* and for i < j the end of range i is at most the start of range j and the
\* start of range i is at most the start of range j.
C7_NonOverlap ==
  PlanReturned =>
    /\ \A j \in 1..Len(segs) :
         0 <= RangeStart(j) /\ RangeStart(j) <= RangeEnd(j) /\ RangeEnd(j) <= Size
    /\ \A i, j \in 1..Len(segs) :
         i < j => (RangeEnd(i) <= RangeStart(j) /\ RangeStart(i) <= RangeStart(j))

\* C7 witness: a plan of two or more ranges for which the start adjustment of
\* some segment ran past the end of the file.
C7_Witness ==
  /\ PlanReturned
  /\ Len(segs) >= 2
  /\ \E i \in 1..Len(segments) : segments[i][1] > Size

\* C8: in every plan returned, every range start and end is 0, the file size,
\* or a position q whose preceding byte (offset q - 1) is not a word byte.
C8_WordBoundary ==
  PlanReturned =>
    \A j \in 1..Len(segs) : \A q \in {RangeStart(j), RangeEnd(j)} :
      q = 0 \/ q = Size \/ ~WordByte(file[q])

\* C8 witness: a plan with a range starting strictly inside the file, at a
\* position the adjustment moved forward from a naive split inside a word.
C8_Witness ==
  /\ PlanReturned
  /\ \E i \in 2..Len(segments) :
       /\ NaiveStart(file, n, i - 1) < segments[i][1]
       /\ segments[i][1] < Size
       /\ WordByte(file[NaiveStart(file, n, i - 1)])
       /\ WordByte(file[NaiveStart(file, n, i - 1) + 1])
       /\ \E j \in 2..Len(segs) : segs[j] = segments[i]

\* C10: in the plan of a non-empty file every range has start < end, and a
\* file that is one single word yields exactly the one range (0, size).
C10_NoEmptyRange ==
  (PlanReturned /\ Size > 0) =>
    /\ \A j \in 1..Len(segs) : RangeStart(j) < RangeEnd(j)
    /\ ((\A k \in 1..Size : WordByte(file[k])) => segs = <<<<0, Size>>>>)

\* No run of main starts a thread, reaches the join loop or prints the table.
MainNeverStartsAThread ==
  threads = <<>> /\ pc \notin {"join", "report", "done"} /\ ~printed

---------------------------------------------------------------------------
(* Properties of consolidate *)

\* The sum of word w's counts over the maps j..Len(rs), absent counting 0.
RECURSIVE SumFrom(_, _, _)
SumFrom(rs, w, j) ==
  IF j > Len(rs) THEN 0 ELSE Get(rs[j], w) + SumFrom(rs, w, j + 1)

Permutations(k) ==
  {p \in [1..k -> 1..k] : \A a, b \in 1..k : p[a] = p[b] => a = b}

Permuted(rs, p) == [j \in 1..Len(rs) |-> rs[p[j]]]

\* C9: consolidate returns for each word the sum of its counts over all input
\* maps (absent = 0, empty maps skipped), its keys are the words of the inputs,
\* and every permutation of the input gives the same result.
C9_OrderIndependentSum ==
  pc = "agg_return" =>
    /\ DOMAIN final_counts = UNION {DOMAIN results[j] : j \in 1..Len(results)}
    /\ \A w \in AggWords : Get(final_counts, w) = SumFrom(results, w, 1)
    /\ \A p \in Permutations(Len(results)) :
         consolidate(Permuted(results, p)) = final_counts

\* C9 witness: consolidate has returned for a list with an empty map, a word
\* present in two maps with different counts, and a word absent from one.
C9_Witness ==
  /\ pc = "agg_return"
  /\ \E a, b, c \in 1..Len(results) :
       /\ DOMAIN results[a] = {}
       /\ <<97>> \in DOMAIN results[b] /\ <<97>> \in DOMAIN results[c]
       /\ results[b][<<97>>] # results[c][<<97>>]
       /\ <<98>> \in DOMAIN results[b] /\ <<98>> \notin DOMAIN results[c]

====
